---- MODULE Spec2Model ----
(***************************************************************************)
(* Model of iugb_data_migration.py: the field-mapped batch migration of    *)
(* legacy form records into the custom-field form tables.                  *)
(*                                                                         *)
(* The target store is modelled twice: `committed` is what the database    *)
(* holds durably, `txn` is what the script's connection sees (committed    *)
(* plus its own uncommitted statements).  commit() copies txn to           *)
(* committed, rollback() copies committed to txn.                          *)
(***************************************************************************)
EXTENDS Integers, Sequences, FiniteSets, Bags, TLC

(***************************************************************************)
(* Bounds of the model.  PageSize and BatchSize stand for the script's     *)
(* page size (fetch_records_in_batches, batch_size=100) and unit size      *)
(* (batch_size = 100 in insert_records and update_records), scaled down.   *)
(***************************************************************************)
NSpec == 4
PageSize == 3
BatchSize == 2
MaxRuns == 2

(***************************************************************************)
(* Values.  A Python value is a record [k, s, n]: None, a str (s is the    *)
(* sequence of its characters) or an int (n).                              *)
(***************************************************************************)
None == [k |-> "none", s |-> <<>>, n |-> 0]
StrV(chars) == [k |-> "str", s |-> chars, n |-> 0]
IntV(i) == [k |-> "int", s |-> <<>>, n |-> i]
EmptyStr == StrV(<<>>)

IsSpace(c) == c = " "

Lower(c) ==
  CASE c = "N" -> "n"
    [] c = "U" -> "u"
    [] c = "L" -> "l"
    [] c = "O" -> "o"
    [] c = "E" -> "e"
    [] c = "A" -> "a"
    [] c = "B" -> "b"
    [] OTHER -> c

LowerStr(chars) == [i \in 1..Len(chars) |-> Lower(chars[i])]

RECURSIVE LStrip(_)
LStrip(chars) ==
  IF chars # <<>> /\ IsSpace(Head(chars)) THEN LStrip(Tail(chars)) ELSE chars

RECURSIVE RStrip(_)
RStrip(chars) ==
  IF chars # <<>> /\ IsSpace(chars[Len(chars)])
  THEN RStrip(SubSeq(chars, 1, Len(chars) - 1))
  ELSE chars

\* str.strip()
Strip(chars) == RStrip(LStrip(chars))

\* str.split(','): the pieces between commas, empty pieces included.
RECURSIVE SplitFrom(_, _)
SplitFrom(chars, cur) ==
  IF chars = <<>> THEN <<cur>>
  ELSE IF Head(chars) = "," THEN <<cur>> \o SplitFrom(Tail(chars), <<>>)
  ELSE SplitFrom(Tail(chars), Append(cur, Head(chars)))

Split(chars) == SplitFrom(chars, <<>>)

RECURSIVE DigitsOf(_)
DigitsOf(i) ==
  LET d == <<"0", "1", "2", "3", "4", "5", "6", "7", "8", "9">>
  IN IF i < 10 THEN <<d[i + 1]>> ELSE Append(DigitsOf(i \div 10), d[(i % 10) + 1])

\* str(value)
PyStr(v) ==
  CASE v.k = "str" -> v.s
    [] v.k = "int" -> IF v.n < 0 THEN <<"-">> \o DigitsOf(0 - v.n) ELSE DigitsOf(v.n)
    [] OTHER -> <<"N", "o", "n", "e">>

\* Python truthiness of a value (`if value:` / `not value`).
Truthy(v) ==
  CASE v.k = "str" -> v.s # <<>>
    [] v.k = "int" -> v.n # 0
    [] OTHER -> FALSE

is_empty_value(value) ==
  IF value.k = "none" THEN TRUE
  ELSE IF value.k = "str"
       THEN LET w == LowerStr(Strip(value.s))
            IN w = <<>> \/ w = <<"n", "u", "l", "l">> \/ w = <<"n", "o", "n", "e">>
       ELSE FALSE

\* The pieces of a value, trimmed, the empty ones kept.
SplitKeepEmpty(value) ==
  LET pieces == Split(PyStr(value))
  IN [i \in 1..Len(pieces) |-> Strip(pieces[i])]

\* [v.strip() for v in str(value).split(',') if v.strip()]
SplitValues(value) ==
  LET pieces == Split(PyStr(value))
      stripped == [i \in 1..Len(pieces) |-> Strip(pieces[i])]
  IN SelectSeq(stripped, LAMBDA p : p # <<>>)

(***************************************************************************)
(* The target store.                                                       *)
(*   entry  : catissue_form_record_entry, rows in insertion order          *)
(*   single : the single-valued tables, table -> set of <<IDENTIFIER, col>> *)
(*   multi  : the multi-select table, a bag of <<VALUE, RECORD_ID>>        *)
(*   last_id: dyextn_id_seq.LAST_ID of RECORD_ID_SEQ                       *)
(***************************************************************************)
MainTable == "DE_E_11051"
OtherTable == "DE_E_OTHER"
MultiTable == "DE_E_11055"
SingleTables == {MainTable, OtherTable}

\* The form the custom-field records belong to (ctxt.container_id = 176).
CustomContainer == 176

\* catissue_form_context: collection protocol 1 has the custom form attached,
\* collection protocol 2 has no form context at all.
FormContexts == {[identifier |-> 11, cp_id |-> 1, container_id |-> CustomContainer]}

EmptyStore ==
  [entry |-> <<>>,
   single |-> [t \in SingleTables |-> {}],
   multi |-> EmptyBag,
   last_id |-> 0]

SetMax(S) == CHOOSE x \in S : \A y \in S : y <= x

RecordIds(st) == {st.entry[i].record_id : i \in 1..Len(st.entry)}

\* A seed taken from the sequence counter instead of the entry table.
SeedFromLastId(st) == st.last_id

\* SELECT MAX(record_id) FROM catissue_form_record_entry; fetchone()[0] or 1
SeedRecordId(st) ==
  IF RecordIds(st) = {} THEN 1
  ELSE IF SetMax(RecordIds(st)) = 0 THEN 1 ELSE SetMax(RecordIds(st))

\* INSERT INTO catissue_form_record_entry (FORM_CTXT_ID, OBJECT_ID, RECORD_ID, ...)
InsertEntry(st, form_ctxt_id, object_id, record_id) ==
  [st EXCEPT !.entry = Append(@, [form_ctxt_id |-> form_ctxt_id,
                                  object_id |-> object_id,
                                  record_id |-> record_id])]

HasRow(st, table, id) == \E r \in st.single[table] : r[1] = id

\* INSERT INTO t (IDENTIFIER, col) VALUES (id, v) ON DUPLICATE KEY UPDATE col = v
UpsertSingle(st, table, id, v) ==
  [st EXCEPT !.single[table] = {r \in @ : r[1] # id} \cup {<<id, v>>}]

\* UPDATE t SET col = v WHERE IDENTIFIER = id: changes the row when there is one.
UpdateSingle(st, table, id, v) ==
  IF HasRow(st, table, id)
  THEN [st EXCEPT !.single[table] = {r \in @ : r[1] # id} \cup {<<id, v>>}]
  ELSE st

\* SELECT col FROM t WHERE IDENTIFIER = id; row[0] if row else None
SelectSingle(st, table, id) ==
  IF HasRow(st, table, id)
  THEN (CHOOSE r \in st.single[table] : r[1] = id)[2]
  ELSE None

\* SELECT VALUE FROM t WHERE RECORD_ID = id, as the set the script builds.
ExistingValues(st, id) == {r[1] : r \in {x \in BagToSet(st.multi) : x[2] = id}}

\* INSERT INTO t (VALUE, RECORD_ID) VALUES (val, id)
AddMulti(st, val, id) == [st EXCEPT !.multi = @ (+) SetToBag({<<val, id>>})]

\* INSERT ... ON DUPLICATE KEY UPDATE VALUE = VALUES(VALUE): with a unique key on
\* (VALUE, RECORD_ID) a repeated pair overwrites itself, without one it is a new row.
UpsertMulti(st, unique_key, val, id) ==
  IF unique_key /\ BagIn(<<val, id>>, st.multi) THEN st ELSE AddMulti(st, val, id)

\* The sequence update without its "+ 1".
UpdateSeqToMax(st) ==
  IF RecordIds(st) = {} THEN st
  ELSE [st EXCEPT !.last_id = SetMax(RecordIds(st))]

\* UPDATE dyextn_id_seq SET LAST_ID = (SELECT MAX(record_id) + 1 FROM entry)
UpdateSeq(st) ==
  IF RecordIds(st) = {} THEN st
  ELSE [st EXCEPT !.last_id = SetMax(RecordIds(st)) + 1]

\* connection.commit(): the connection's view becomes the durable store.
Commit(durable, view) == view

\* A rollback that leaves the uncommitted statements in the connection's view.
RollbackKeepsView(durable, view) == view

\* connection.rollback(): the connection's view returns to the durable store.
Rollback(durable, view) == durable

(***************************************************************************)
(* The source: one legacy form record per specimen (the inner join of      *)
(* base_query), with two mapped legacy fields: S, mapped by a              *)
(* single-valued rule, and M, mapped by a multi-select rule.  The          *)
(* custom-field columns of the query that no rule reads are left out.      *)
(***************************************************************************)
Specimens == 1..NSpec

\* The columns of the field details file that the script reads.
AllColumns ==
  {"Legacy Field Name", "Target Field Name", "Target Table Name",
   "Target Column Name", "Is Multi-Select"}

\* row[...] of the field_mappings comprehension in insert_records.
InsertColumns ==
  {"Legacy Field Name", "Target Field Name", "Target Table Name",
   "Target Column Name", "Is Multi-Select"}

\* row[...] of the udp_mappings comprehension in update_records.
UpdateColumns ==
  {"Legacy Field Name", "Target Table Name", "Target Column Name", "Is Multi-Select"}

\* The headers a field details file can have here: complete, without the target
\* field name, without the multi-select flag.  load_field_details takes the
\* rows as csv.DictReader gives them; a row has no key for an absent column.
MappingHeaders ==
  {AllColumns, AllColumns \ {"Target Field Name"}, AllColumns \ {"Is Multi-Select"}}

\* field_mappings / udp_mappings, as parsed from the field details.
FieldMappings(single_table) ==
  <<[legacy_field |-> "S", target_table |-> single_table, is_multiselect |-> FALSE],
    [legacy_field |-> "M", target_table |-> MultiTable, is_multiselect |-> TRUE]>>

RECURSIVE Repeat(_, _)
Repeat(x, k) == IF k <= 0 THEN <<>> ELSE <<x>> \o Repeat(x, k - 1)

RECURSIVE Flatten(_)
Flatten(seqs) == IF seqs = <<>> THEN <<>> ELSE Head(seqs) \o Flatten(Tail(seqs))

RECURSIVE SumCopies(_, _)
SumCopies(S, bag) ==
  IF S = {} THEN 0
  ELSE LET x == CHOOSE y \in S : TRUE
       IN CopiesIn(x, bag) + SumCopies(S \ {x}, bag)

\* The number of multi-select rows of one record.
MultiRows(st, id) == SumCopies({x \in BagToSet(st.multi) : x[2] = id}, st.multi)

\* rec join ctxt (container_id = 176) join DE_E_11051 on identifier = rec.record_id
IsCustomEntry(st, e) ==
  /\ \E c \in FormContexts :
        c.identifier = e.form_ctxt_id /\ c.container_id = CustomContainer
  /\ HasRow(st, MainTable, e.record_id)

SourceRow(source, s, rid) ==
  [specimen_id |-> s,
   cp_id |-> source[s].cp_id,
   custom_field_record_id |-> rid,
   S |-> source[s].S,
   M |-> source[s].M]

\* The rows base_query returns for one specimen: the left join gives one row per
\* custom-field record and per multi-select row of it, or one row without a
\* custom-field record.
RowsOfSpecimen(st, source, s) ==
  LET matches == SelectSeq(st.entry, LAMBDA e : e.object_id = s /\ IsCustomEntry(st, e))
      MaxOne(k) == IF k < 1 THEN 1 ELSE k
  IN IF matches = <<>>
     THEN <<SourceRow(source, s, None)>>
     ELSE Flatten([i \in 1..Len(matches) |->
            Repeat(SourceRow(source, s, IntV(matches[i].record_id)),
                   MaxOne(MultiRows(st, matches[i].record_id)))])

\* base_query, in specimen order.
Extract(st, source) == Flatten([s \in Specimens |-> RowsOfSpecimen(st, source, s)])

\* base_query LIMIT batch_size OFFSET offset
FetchPage(st, source, off) ==
  LET rows == Extract(st, source)
      last == IF off + PageSize < Len(rows) THEN off + PageSize ELSE Len(rows)
  IN SubSeq(rows, off + 1, last)

\* fetch_form_ctxt_ids: the maps the dict comprehension can build, one identifier
\* per cp_id that has a form context.
FormCtxtMaps(cp_ids) ==
  LET found == {cp \in cp_ids : \E c \in FormContexts : c.cp_id = cp}
  IN {m \in [found -> {c.identifier : c \in FormContexts}] :
        \A cp \in found : \E c \in FormContexts : c.cp_id = cp /\ c.identifier = m[cp]}

\* A classifier that puts every record on the insert list.
ToInsertAll(records) == records

\* divide_records
ToUpdate(records) == SelectSeq(records, LAMBDA r : Truthy(r.custom_field_record_id))

ToInsert(records) == SelectSeq(records, LAMBDA r : ~Truthy(r.custom_field_record_id))

\* A sanitizer that also drops one leading blank of a value it keeps.
SanitizeDropBlank(v) ==
  IF is_empty_value(v) THEN EmptyStr
  ELSE IF v.k = "str" /\ IsSpace(Head(v.s)) THEN StrV(Tail(v.s))
  ELSE v

\* rec[k] = '' if is_empty_value(v), else the value stays.
SanitizeValue(v) == IF is_empty_value(v) THEN EmptyStr ELSE v

\* sanitize_records, on one record: specimen_id and cp_id are integers.
SanitizeRecord(rec) ==
  [rec EXCEPT !.custom_field_record_id = SanitizeValue(@),
              !.S = SanitizeValue(@),
              !.M = SanitizeValue(@)]

sanitize_records(records) == [i \in 1..Len(records) |-> SanitizeRecord(records[i])]

(***************************************************************************)
(* insert_records: the statements of one record and of one unit.           *)
(***************************************************************************)
RECURSIVE UpsertTokens(_, _, _, _)
UpsertTokens(st, unique_key, vals, record_id) ==
  IF vals = <<>> THEN st
  ELSE UpsertTokens(UpsertMulti(st, unique_key, Head(vals), record_id),
                    unique_key, Tail(vals), record_id)

\* Lines 168-191: the value statements of one rule for one record.
InsertField(st, unique_key, mapping, rec, record_id) ==
  LET value == rec[mapping.legacy_field]
  IN IF is_empty_value(value) THEN st
     ELSE IF mapping.is_multiselect
          THEN UpsertTokens(st, unique_key, SplitValues(value), record_id)
          ELSE UpsertSingle(st, mapping.target_table, record_id, value)

RECURSIVE InsertFields(_, _, _, _, _)
InsertFields(st, unique_key, mappings, rec, record_id) ==
  IF mappings = <<>> THEN st
  ELSE InsertFields(InsertField(st, unique_key, Head(mappings), rec, record_id),
                    unique_key, Tail(mappings), rec, record_id)

\* Lines 155-191: the entry row and the value rows of one record.
InsertRecord(st, config, rec, record_id, form_ctxt_id) ==
  InsertFields(InsertEntry(st, form_ctxt_id, rec.specimen_id, record_id),
               config.unique_key, FieldMappings(config.single_table), rec, record_id)

\* The connection's view after records 1..k of a unit, which get the
\* identifiers first + 1 .. first + k.
RECURSIVE InsertUpTo(_, _, _, _, _, _)
InsertUpTo(st, config, unit, k, first, ctxt_map) ==
  IF k = 0 THEN st
  ELSE InsertRecord(InsertUpTo(st, config, unit, k - 1, first, ctxt_map),
                    config, unit[k], first + k, ctxt_map[unit[k].cp_id])

\* form_ctxt_map.get(str(cp_id)) is missing (or falsy) for the record.
NoContext(ctxt_map, rec) == rec.cp_id \notin DOMAIN ctxt_map

\* The first record of the unit that raises the ValueError of lines 152-153, or 0.
FirstNoContext(ctxt_map, unit) ==
  LET bad == {i \in 1..Len(unit) : NoContext(ctxt_map, unit[i])}
  IN IF bad = {} THEN 0 ELSE CHOOSE i \in bad : \A j \in bad : i <= j

\* Where the try block of a unit leaves it.  fail_at is the record at which a store
\* statement fails (0: none, Len(unit) + 1: the sequence update or the commit).
\* A record without a form context raises before any statement of it is sent.
RaisedAt(ctxt_map, unit, fail_at) ==
  LET mc == FirstNoContext(ctxt_map, unit)
  IN IF mc # 0 /\ (fail_at = 0 \/ fail_at >= mc) THEN mc ELSE fail_at

\* The connection's view when the unit's try block is left: every record before
\* the raising one is applied; of the raising record the entry row is there when
\* a later statement of it failed.
UnitView(st, config, unit, first, ctxt_map, fail_at, entry_done) ==
  LET at == RaisedAt(ctxt_map, unit, fail_at)
      n == Len(unit)
  IN IF at = 0 THEN UpdateSeq(InsertUpTo(st, config, unit, n, first, ctxt_map))
     ELSE IF at = n + 1 THEN UpdateSeq(InsertUpTo(st, config, unit, n, first, ctxt_map))
     ELSE LET before == InsertUpTo(st, config, unit, at - 1, first, ctxt_map)
          IN IF entry_done /\ ~NoContext(ctxt_map, unit[at])
             THEN InsertEntry(before, ctxt_map[unit[at].cp_id],
                              unit[at].specimen_id, first + at)
             ELSE before

\* A unit that leaves record_id where it found it.
UnitRecordIdStuck(unit, first, at) == first

\* record_id after the unit: one increment per record reached.
UnitRecordId(unit, first, at) == IF at = 0 \/ at > Len(unit) THEN first + Len(unit) ELSE first + at

\* str(e) of the exception the unit's handler logs.
UnitError(ctxt_map, unit, fail_at) ==
  LET at == RaisedAt(ctxt_map, unit, fail_at)
  IN IF at \in 1..Len(unit) /\ NoContext(ctxt_map, unit[at]) /\ FirstNoContext(ctxt_map, unit) = at
     THEN <<"No form context ID found for CP ID", unit[at].cp_id>>
     ELSE <<"store error", 0>>

(***************************************************************************)
(* update_records: the reconciliation of one record.  The accumulator is   *)
(* [st, ops, stmts, err]: the connection's view, the write statements      *)
(* issued, the number of statements sent, and the exception raised.        *)
(***************************************************************************)
WriteOp(stmt, table, id, val) == [stmt |-> stmt, table |-> table, id |-> id, val |-> val]

\* Lines 320-325: existing is read once, before the loop.
RECURSIVE InsertAbsent(_, _, _, _, _)
InsertAbsent(acc, unique_key, existing, vals, id) ==
  IF vals = <<>> \/ acc.err # "" THEN acc
  ELSE LET val == Head(vals)
           next ==
             IF val \in existing THEN acc
             ELSE IF unique_key /\ BagIn(<<val, id>>, acc.st.multi)
                  THEN [acc EXCEPT !.stmts = @ + 1, !.err = "duplicate entry"]
                  ELSE [acc EXCEPT !.st = AddMulti(@, val, id),
                                   !.stmts = @ + 1,
                                   !.ops = Append(@, WriteOp("INSERT", MultiTable, id, val))]
       IN InsertAbsent(next, unique_key, existing, Tail(vals), id)

\* Lines 309-325
ReconcileMulti(acc, unique_key, legacy_val, id) ==
  LET new_vals == SplitValues(legacy_val)
  IN IF new_vals = <<>> THEN acc
     ELSE InsertAbsent([acc EXCEPT !.stmts = @ + 1], unique_key,
                       ExistingValues(acc.st, id), new_vals, id)

\* The single-valued branch without the comparison of line 340: always UPDATE.
ReconcileSingleAlways(acc, table, legacy_val, id) ==
  LET clean_val == Strip(PyStr(legacy_val))
  IN [acc EXCEPT !.st = UpdateSingle(@, table, id, StrV(clean_val)),
                 !.stmts = @ + 2,
                 !.ops = Append(@, WriteOp("UPDATE", table, id, clean_val))]

\* Lines 326-344
ReconcileSingle(acc, table, legacy_val, id) ==
  LET clean_val == Strip(PyStr(legacy_val))
      current_val == SelectSingle(acc.st, table, id)
      written == [acc EXCEPT !.st = UpdateSingle(@, table, id, StrV(clean_val)),
                             !.stmts = @ + 2,
                             !.ops = Append(@, WriteOp("UPDATE", table, id, clean_val))]
  IN IF current_val.k = "none" THEN written
     ELSE IF Strip(PyStr(current_val)) # clean_val THEN written
     ELSE [acc EXCEPT !.stmts = @ + 1]

\* Lines 304-344, one rule.
ReconcileField(acc, unique_key, mapping, rec, id) ==
  LET legacy_val == rec[mapping.legacy_field]
  IN IF acc.err # "" \/ is_empty_value(legacy_val) THEN acc
     ELSE IF mapping.is_multiselect
          THEN ReconcileMulti(acc, unique_key, legacy_val, id)
          ELSE ReconcileSingle(acc, mapping.target_table, legacy_val, id)

RECURSIVE ReconcileFields(_, _, _, _, _)
ReconcileFields(acc, unique_key, mappings, rec, id) ==
  IF mappings = <<>> THEN acc
  ELSE ReconcileFields(ReconcileField(acc, unique_key, Head(mappings), rec, id),
                       unique_key, Tail(mappings), rec, id)

\* Lines 300-346: the try block of one record, every statement succeeding
\* unless the store itself rejects it.
ReconcileRecord(st, config, rec) ==
  LET start == [st |-> st, ops |-> <<>>, stmts |-> 0, err |-> ""]
  IN IF ~Truthy(rec.custom_field_record_id)
     THEN [start EXCEPT !.err = "Missing record_id for update"]
     ELSE ReconcileFields(start, config.unique_key, FieldMappings(config.single_table),
                          rec, rec.custom_field_record_id.n)

(***************************************************************************)
(* State.                                                                  *)
(*   src, cfg        the legacy data and the configuration of the run      *)
(*   committed, txn  the durable store and the connection's view of it     *)
(*   pc, run         the position in main() and the number of the run      *)
(*   offset, batch_len, to_update, to_insert, form_ctxt_map,               *)
(*   counts, totals  the locals of main()                                  *)
(*   ins, upd        the locals of insert_records and update_records       *)
(*   failed_inserts, failed_updates  the rows of the two failure logs      *)
(*   hist, last, chunk  history: what the run allocated and logged, what   *)
(*                   the last step did, the records of the current chunk   *)
(***************************************************************************)
VARIABLES src, cfg, committed, txn, pc, run, offset, batch_len, to_update,
          to_insert, form_ctxt_map, counts, totals, ins, upd, failed_inserts,
          failed_updates, hist, last, chunk

vars == <<src, cfg, committed, txn, pc, run, offset, batch_len, to_update,
          to_insert, form_ctxt_map, counts, totals, ins, upd, failed_inserts,
          failed_updates, hist, last, chunk>>

\* Legacy records: a value with surrounding blanks and a repeated token, a
\* collection protocol without form context, and an empty-like single value.
SrcRecs ==
  {[cp_id |-> 1, S |-> StrV(<<" ", "a">>), M |-> StrV(<<"a", ",", "a">>)],
   [cp_id |-> 2, S |-> StrV(<<"a">>), M |-> None],
   [cp_id |-> 1, S |-> StrV(<<"N", "U", "L", "L">>),
    M |-> StrV(<<"b", ",", " ", "a", " ", ",", ",", "c">>)]}

EntryRow(object_id, record_id) ==
  [form_ctxt_id |-> 11, object_id |-> object_id, record_id |-> record_id]

\* The stores a run can start from, each with the table the single-valued rule
\* targets: nothing migrated yet; specimen 1 migrated by hand; specimens 1 to 3
\* migrated (a first source page of update-candidates only) and the sequence
\* ahead of the entry table; specimen 1 migrated and the rule's table without a
\* row for it.
Scenarios ==
  {[store |-> EmptyStore, single_table |-> MainTable],
   [store |-> [entry |-> <<EntryRow(1, 5)>>,
               single |-> [t \in SingleTables |->
                            IF t = MainTable THEN {<<5, StrV(<<"a">>)>>} ELSE {}],
               multi |-> SetToBag({<<(<<"a">>), 5>>}),
               last_id |-> 5],
    single_table |-> MainTable],
   [store |-> [entry |-> <<EntryRow(1, 5), EntryRow(2, 6), EntryRow(3, 7)>>,
               single |-> [t \in SingleTables |->
                            IF t = MainTable
                            THEN {<<5, None>>, <<6, StrV(<<"b", " ">>)>>,
                                  <<7, StrV(<<"a">>)>>}
                            ELSE {}],
               multi |-> EmptyBag,
               last_id |-> 9],
    single_table |-> MainTable],
   [store |-> [entry |-> <<EntryRow(1, 5)>>,
               single |-> [t \in SingleTables |->
                            IF t = MainTable THEN {<<5, None>>} ELSE {}],
               multi |-> SetToBag({<<(<<"b">>), 5>>}),
               last_id |-> 5],
    single_table |-> OtherTable]}

NoStep == [op |-> "none"]

ZeroCounts == [inserted |-> 0, updated |-> 0, failed |-> 0]

ZeroTotals ==
  [total_inserted |-> 0, total_updated |-> 0, total_failed |-> 0, processed_count |-> 0]

IdleInsert == [record_id |-> 0, pos |-> 0, success_count |-> 0, failure_count |-> 0]

IdleUpdate == [pos |-> 0, success_count |-> 0, failure_count |-> 0]

\* What a run has done so far: the identifiers it allocated, in order; how often
\* it truncated the insert failure log; the records it counted as failed on the
\* insert path; the specimens whose insert it committed; and the specimens whose
\* insert an earlier run committed.
NewHist(migrated) ==
  [allocated |-> <<>>, truncs |-> 0, ins_failed |-> <<>>, inserted |-> {},
   migrated |-> migrated]

\* main() up to the loop (lines 358-426): a fresh connection, counters at zero.
StartMain ==
  /\ pc = "fetch"
  /\ offset = 0
  /\ batch_len = 0
  /\ to_update = <<>>
  /\ to_insert = <<>>
  /\ form_ctxt_map = <<>>
  /\ counts = ZeroCounts
  /\ totals = ZeroTotals
  /\ ins = IdleInsert
  /\ upd = IdleUpdate
  /\ last = NoStep
  /\ chunk = <<>>

Init ==
  /\ src \in [Specimens -> SrcRecs]
  /\ \E sc \in Scenarios, uk \in BOOLEAN, cols \in MappingHeaders :
       /\ cfg = [single_table |-> sc.single_table, unique_key |-> uk, columns |-> cols]
       /\ committed = sc.store
       /\ txn = sc.store
  /\ run = 1
  /\ failed_inserts = <<>>
  /\ failed_updates = <<>>
  /\ hist = NewHist({})
  /\ StartMain

(***************************************************************************)
(* main(): one pass of the loop of lines 428-450, up to the calls.         *)
(***************************************************************************)
FetchBatch ==
  /\ pc = "fetch"
  /\ LET records == FetchPage(txn, src, offset)
         upd_recs == ToUpdate(records)
         ins_recs == ToInsert(records)
     IN IF records = <<>>
        THEN /\ pc' = "done"
             /\ last' = [op |-> "close"]
             /\ UNCHANGED <<batch_len, to_update, to_insert, form_ctxt_map, counts>>
        ELSE /\ \E m \in FormCtxtMaps({ins_recs[i].cp_id : i \in 1..Len(ins_recs)}) :
                  form_ctxt_map' = m
             /\ batch_len' = Len(records)
             /\ to_update' = upd_recs
             /\ to_insert' = ins_recs
             /\ counts' = ZeroCounts
             /\ pc' = IF ins_recs # <<>> THEN "insert" ELSE "update"
             /\ last' = [op |-> "fetch"]
  /\ UNCHANGED <<src, cfg, committed, txn, run, offset, totals, ins, upd,
                 failed_inserts, failed_updates, hist, chunk>>

\* insert_records, lines 117-140: the seed, the truncated log, the mappings, the
\* sanitizer.  A column the comprehension of lines 131-137 reads and the file
\* does not have raises a KeyError that nothing catches: the script dies with
\* the log truncated and the records not yet sanitized.
InsertBegin ==
  /\ pc = "insert"
  /\ ins' = [record_id |-> SeedRecordId(txn), pos |-> 0,
             success_count |-> 0, failure_count |-> 0]
  /\ failed_inserts' = <<>>
  /\ hist' = [hist EXCEPT !.truncs = @ + 1]
  /\ last' = [op |-> "insert_begin"]
  /\ IF InsertColumns \subseteq cfg.columns
     THEN /\ to_insert' = sanitize_records(to_insert)
          /\ pc' = "insert_unit"
     ELSE /\ to_insert' = to_insert
          /\ pc' = "fatal"
  /\ UNCHANGED <<src, cfg, committed, txn, run, offset, batch_len, to_update,
                 form_ctxt_map, counts, totals, upd, failed_updates, chunk>>

\* A record that sends a value statement after its entry row.
HasValueStmt(rec) ==
  \/ ~is_empty_value(rec.S)
  \/ ~is_empty_value(rec.M) /\ SplitValues(rec.M) # <<>>

\* insert_records, lines 142-207 and 209-268: one unit of at most BatchSize
\* records, with its commit or its failure handler, and the return to main()
\* (lines 438-439) after the last unit.
InsertUnit ==
  /\ pc = "insert_unit"
  /\ LET total == Len(to_insert)
         upto == IF ins.pos + BatchSize < total THEN ins.pos + BatchSize ELSE total
         unit == SubSeq(to_insert, ins.pos + 1, upto)
         n == Len(unit)
         first == ins.record_id
     IN \E fail_at \in 0..(n + 1), entry_done \in BOOLEAN :
          LET at == RaisedAt(form_ctxt_map, unit, fail_at)
              ok == at = 0
              view == UnitView(txn, cfg, unit, first, form_ctxt_map, fail_at, entry_done)
              next_id == UnitRecordId(unit, first, at)
              err == UnitError(form_ctxt_map, unit, fail_at)
              success == IF ok THEN ins.success_count + n ELSE ins.success_count
              failure == IF ok THEN ins.failure_count ELSE ins.failure_count + n
          IN /\ entry_done => /\ fail_at \in 1..n
                               /\ at = fail_at
                               /\ ~NoContext(form_ctxt_map, unit[at])
                               /\ HasValueStmt(unit[at])
             /\ committed' = IF ok THEN Commit(committed, view) ELSE committed
             /\ txn' = IF ok THEN view ELSE Rollback(committed, view)
             /\ failed_inserts' =
                  IF ok THEN failed_inserts
                  ELSE failed_inserts \o [i \in 1..n |-> <<unit[i], err>>]
             /\ ins' = [record_id |-> next_id, pos |-> upto,
                        success_count |-> success, failure_count |-> failure]
             /\ hist' = [hist EXCEPT
                          !.allocated = @ \o [i \in 1..(next_id - first) |-> first + i],
                          !.ins_failed = IF ok THEN @ ELSE @ \o unit,
                          !.inserted = IF ok THEN @ \cup {unit[i].specimen_id : i \in 1..n}
                                       ELSE @]
             /\ last' = [op |-> "insert_unit", ok |-> ok, unit |-> unit, first |-> first,
                         fail_at |-> fail_at, ctxt_map |-> form_ctxt_map,
                         before |-> committed, log_before |-> failed_inserts,
                         success_before |-> ins.success_count]
             /\ IF upto = total
                THEN /\ counts' = [counts EXCEPT !.inserted = success,
                                                 !.failed = @ + failure]
                     /\ pc' = IF to_update # <<>> THEN "update" ELSE "totals"
                ELSE UNCHANGED <<counts, pc>>
  /\ UNCHANGED <<src, cfg, run, offset, batch_len, to_update, to_insert,
                 form_ctxt_map, totals, upd, failed_updates, chunk>>

\* update_records, lines 273-293.  A column the comprehension of lines 277-282
\* reads and the file does not have raises a KeyError that nothing catches.
UpdateBegin ==
  /\ pc = "update"
  /\ to_update' = sanitize_records(to_update)
  /\ upd' = IdleUpdate
  /\ chunk' = <<>>
  /\ pc' = IF UpdateColumns \subseteq cfg.columns THEN "update_record" ELSE "fatal"
  /\ last' = [op |-> "update_begin"]
  /\ UNCHANGED <<src, cfg, committed, txn, run, offset, batch_len, to_insert,
                 form_ctxt_map, counts, totals, ins, failed_inserts,
                 failed_updates, hist>>

\* update_records, lines 298-353: one record, with the commit of line 353 after
\* the last record of a chunk and the return to main() (lines 442-443) after the
\* last record.  store_fails: a statement of the record is rejected by the store.
UpdateRecord ==
  /\ pc = "update_record"
  /\ LET rec == to_update[upd.pos + 1]
         res == ReconcileRecord(txn, cfg, rec)
         pos == upd.pos + 1
         chunk_end == pos % BatchSize = 0 \/ pos = Len(to_update)
     IN \E store_fails \in BOOLEAN :
          LET raised == store_fails \/ res.err # ""
              after == IF raised THEN Rollback(committed, res.st) ELSE res.st
              success == IF raised THEN upd.success_count ELSE upd.success_count + 1
              failure == IF raised THEN upd.failure_count + 1 ELSE upd.failure_count
              step == [rec |-> rec, ok |-> ~raised,
                       ops |-> IF raised THEN <<>> ELSE res.ops]
          IN /\ store_fails => res.stmts > 0
             /\ txn' = after
             /\ committed' = IF chunk_end THEN Commit(committed, after) ELSE committed
             /\ upd' = [pos |-> pos, success_count |-> success, failure_count |-> failure]
             /\ failed_updates' =
                  IF raised
                  THEN Append(failed_updates,
                              <<rec.specimen_id,
                                IF store_fails THEN "store error" ELSE res.err>>)
                  ELSE failed_updates
             /\ chunk' = Append(IF upd.pos % BatchSize = 0 THEN <<>> ELSE chunk, step)
             /\ last' = [op |-> "update_record", ok |-> ~raised, rec |-> rec,
                         store_fails |-> store_fails, ops |-> step.ops,
                         before |-> txn, chunk_end |-> chunk_end,
                         success_before |-> upd.success_count]
             /\ IF pos = Len(to_update)
                THEN /\ counts' = [counts EXCEPT !.updated = success,
                                                 !.failed = @ + failure]
                     /\ pc' = "totals"
                ELSE UNCHANGED <<counts, pc>>
  /\ UNCHANGED <<src, cfg, run, offset, batch_len, to_update, to_insert,
                 form_ctxt_map, totals, ins, failed_inserts, hist>>

\* Totals that leave the failed records of the batch out.
AddTotalsNoFailed(tot, cnt, len) ==
  [total_inserted |-> tot.total_inserted + cnt.inserted,
   total_updated |-> tot.total_updated + cnt.updated,
   total_failed |-> tot.total_failed,
   processed_count |-> tot.processed_count + len]

\* Lines 445-448: the batch's counts are added to the run's totals.
AddTotals(tot, cnt, len) ==
  [total_inserted |-> tot.total_inserted + cnt.inserted,
   total_updated |-> tot.total_updated + cnt.updated,
   total_failed |-> tot.total_failed + cnt.failed,
   processed_count |-> tot.processed_count + len]

\* main(), lines 445-450, and the generator's offset += batch_size (line 78).
EndBatch ==
  /\ pc = "totals"
  /\ totals' = AddTotals(totals, counts, batch_len)
  /\ offset' = offset + PageSize
  /\ pc' = "fetch"
  /\ last' = [op |-> "end_batch"]
  /\ UNCHANGED <<src, cfg, committed, txn, run, batch_len, to_update, to_insert,
                 form_ctxt_map, counts, ins, upd, failed_inserts, failed_updates,
                 hist, chunk>>

\* The script is started again, after a completed run or after the process was
\* stopped: the old connection's uncommitted statements are lost, the log files
\* stay, main() starts from line 358.
Restart ==
  /\ run < MaxRuns
  /\ run' = run + 1
  /\ txn' = committed
  /\ hist' = NewHist(hist.migrated \cup hist.inserted)
  /\ pc' = "fetch"
  /\ offset' = 0
  /\ batch_len' = 0
  /\ to_update' = <<>>
  /\ to_insert' = <<>>
  /\ form_ctxt_map' = <<>>
  /\ counts' = ZeroCounts
  /\ totals' = ZeroTotals
  /\ ins' = IdleInsert
  /\ upd' = IdleUpdate
  /\ last' = [op |-> "restart"]
  /\ chunk' = <<>>
  /\ UNCHANGED <<src, cfg, committed, failed_inserts, failed_updates>>

\* One run of the script.
Next ==
  \/ FetchBatch
  \/ InsertBegin
  \/ InsertUnit
  \/ UpdateBegin
  \/ UpdateRecord
  \/ EndBatch

Spec == Init /\ [][Next]_vars

\* Runs of the script one after the other, each started after the one before it
\* ended or was stopped.
NextRerun ==
  \/ FetchBatch
  \/ InsertBegin
  \/ InsertUnit
  \/ UpdateBegin
  \/ UpdateRecord
  \/ EndBatch
  \/ Restart

\* The first of the runs: complete field details, the single-valued rule on the
\* table base_query joins, and a store in which at most specimen 1 is migrated.
InitRerun ==
  /\ Init
  /\ cfg.columns = AllColumns
  /\ cfg.single_table = MainTable
  /\ Len(committed.entry) <= 1

SpecRerun == InitRerun /\ [][NextRerun]_vars

(***************************************************************************)
(* Properties.                                                             *)
(***************************************************************************)
InsertUnitDone == last.op = "insert_unit"

UpdateRecordDone == last.op = "update_record"

\* The last insert unit failed on a store statement (not on a missing context).
StoreFailedUnit ==
  /\ InsertUnitDone
  /\ ~last.ok
  /\ last.fail_at # 0
  /\ RaisedAt(last.ctxt_map, last.unit, last.fail_at) = last.fail_at
  /\ last.fail_at <= Len(last.unit) => ~NoContext(last.ctxt_map, last.unit[last.fail_at])

\* C1: after the failure handler of an insert unit that failed on a store
\* statement, the durable store and the connection's view are the store as it
\* was before the unit: no entry row, no value row, no sequence change.
C1_FailedUnitLeavesStore ==
  StoreFailedUnit => committed = last.before /\ txn = last.before

\* C1, witness: a unit failed on a store statement after an earlier record of it
\* had been written.
C1_Witness ==
  /\ StoreFailedUnit
  /\ last.fail_at >= 2
  /\ committed = last.before
  /\ txn = last.before

\* The records of the last unit without and with a form context.
UnitMissing == {i \in 1..Len(last.unit) : NoContext(last.ctxt_map, last.unit[i])}

UnitResolved == {i \in 1..Len(last.unit) : ~NoContext(last.ctxt_map, last.unit[i])}

\* C2: in a unit no store statement of which fails, a record without a form
\* context is left out and logged once, and every record of the unit that has a
\* form context is committed and counted as inserted.
C2_MissingContextSparesSiblings ==
  (InsertUnitDone /\ last.fail_at = 0 /\ UnitMissing # {})
    => /\ Len(failed_inserts) = Len(last.log_before) + Cardinality(UnitMissing)
       /\ \A i \in UnitResolved :
            \E j \in 1..Len(committed.entry) :
              /\ committed.entry[j].object_id = last.unit[i].specimen_id
              /\ committed.entry[j].record_id = last.first + i
       /\ ins.success_count = last.success_before + Cardinality(UnitResolved)

\* A write statement's effect is in the store.
WritePresent(st, op) ==
  IF op.stmt = "INSERT"
  THEN BagIn(<<op.val, op.id>>, st.multi)
  ELSE HasRow(st, op.table, op.id) => SelectSingle(st, op.table, op.id) = StrV(op.val)

\* C3: when a chunk of update-candidates is committed, the writes of every
\* record of it that was counted as a success are in the durable store, whatever
\* happened to the other records of the chunk.
C3_SuccessesSurviveCommit ==
  (UpdateRecordDone /\ last.chunk_end)
    => \A i \in 1..Len(chunk) :
         chunk[i].ok =>
           \A k \in 1..Len(chunk[i].ops) : WritePresent(committed, chunk[i].ops[k])

\* C4: the identifiers a run allocates, over all its calls of insert_records,
\* strictly increase: none is allocated twice.
C4_AllocatedIncrease ==
  \A i \in 1..Len(hist.allocated) :
    \A j \in 1..Len(hist.allocated) :
      i < j => hist.allocated[i] < hist.allocated[j]

C6_LogHoldsEveryFailure ==
  hist.truncs >= 1 =>
    /\ Len(failed_inserts) = Len(hist.ins_failed)
    /\ \A i \in 1..Len(failed_inserts) : failed_inserts[i][1] = hist.ins_failed[i]

\* C7: with the single-valued rule on the table base_query joins, a run never
\* commits an insert for a specimen whose insert an earlier run committed.
C7_NoSecondInsert ==
  (InsertUnitDone /\ last.ok /\ cfg.single_table = MainTable)
    => \A i \in 1..Len(last.unit) : last.unit[i].specimen_id \notin hist.migrated

\* The single-valued column of a record holds a value, and that value is the
\* legacy value up to surrounding blanks.
StoredTrimmedEqual(st, table, rec) ==
  LET cur == SelectSingle(st, table, rec.custom_field_record_id.n)
  IN cur.k # "none" /\ Strip(PyStr(cur)) = Strip(PyStr(rec.S))

\* C8: when a chunk all of whose records were reconciled without error is
\* committed, the single-valued column of every record with a non-empty legacy
\* value holds the legacy value (compared trimmed), also when no row was stored
\* before.
C8_SingleValueStored ==
  (UpdateRecordDone /\ last.chunk_end /\ \A i \in 1..Len(chunk) : chunk[i].ok)
    => \A i \in 1..Len(chunk) :
         ~is_empty_value(chunk[i].rec.S) =>
           StoredTrimmedEqual(committed, cfg.single_table, chunk[i].rec)

\* The tokens of a value, each once.
TokenSet(value) ==
  IF is_empty_value(value) THEN {}
  ELSE {SplitValues(value)[i] : i \in 1..Len(SplitValues(value))}

\* The multi-select rows a reconciliation should leave: the rows before, plus
\* one row for each incoming token the record did not have.
ExpectedMulti(st, rec) ==
  LET id == rec.custom_field_record_id.n
  IN st.multi (+) SetToBag({<<tok, id>> : tok \in TokenSet(rec.M) \ ExistingValues(st, id)})

\* C9: reconciling a record, no store statement being rejected for an outside
\* reason, succeeds and leaves the multi-select rows it found plus each absent
\* incoming token once.
C9_AbsentTokensOnce ==
  (UpdateRecordDone /\ ~last.store_fails)
    => /\ last.ok
       /\ txn.multi = ExpectedMulti(last.before, last.rec)

\* The stored single value of the last record equalled its legacy value after
\* trimming.
TrimmedEqual ==
  LET cur == SelectSingle(last.before, cfg.single_table, last.rec.custom_field_record_id.n)
  IN /\ ~is_empty_value(last.rec.S)
     /\ cur.k # "none"
     /\ Strip(PyStr(cur)) = Strip(PyStr(last.rec.S))

\* C10: a record reconciled without error whose stored single value equals the
\* legacy value after trimming gets no write statement for that field, leaves
\* the single-valued tables as they were, and is counted as a success.
C10_EqualValueNoWrite ==
  (UpdateRecordDone /\ last.ok /\ TrimmedEqual)
    => /\ \A k \in 1..Len(last.ops) : last.ops[k].table # cfg.single_table
       /\ txn.single = last.before.single
       /\ upd.success_count = last.success_before + 1

\* C10, witness: the stored value and the legacy value differ as strings and
\* are equal after trimming.
C10_Witness ==
  /\ UpdateRecordDone
  /\ last.ok
  /\ TrimmedEqual
  /\ SelectSingle(last.before, cfg.single_table, last.rec.custom_field_record_id.n)
       # last.rec.S
  /\ upd.success_count = last.success_before + 1

\* C11: when the run ends, the processed count is the number of source records:
\* every record was read once, whatever units and records failed on the way.
C11_ProcessedEqualsSource ==
  pc = "done" => totals.processed_count = NSpec

\* A source batch is finished and none of its records was counted as failed.
FailureFreeBatch == pc = "totals" /\ counts.failed = 0

\* The largest identifier of the entry table before the last k rows were
\* appended, 1 for an empty table.
MaxBefore(st, k) ==
  LET ids == {st.entry[i].record_id : i \in 1..(Len(st.entry) - k)}
  IN IF ids = {} THEN 1 ELSE SetMax(ids)

\* C12: a source batch without failure, with k insert-candidates and m
\* update-candidates, ends with inserted = k, updated = m, failed = 0 and k + m
\* records to add to the processed count, and the i-th insert-candidate has the
\* entry row with identifier seed + i, the seed being the largest identifier
\* the entry table held before (1 for an empty table).
C12_FailureFreeBatch ==
  FailureFreeBatch =>
    LET k == Len(to_insert)
        m == Len(to_update)
        base == Len(committed.entry) - k
    IN /\ counts.inserted = k
       /\ counts.updated = m
       /\ batch_len = k + m
       /\ base >= 0
       /\ \A i \in 1..k :
            /\ committed.entry[base + i].object_id = to_insert[i].specimen_id
            /\ committed.entry[base + i].record_id = MaxBefore(committed, k) + i

\* C12, witness: a batch with an insert-candidate and an update-candidate ended
\* without failure.
C12_Witness ==
  /\ FailureFreeBatch
  /\ Len(to_insert) >= 1
  /\ Len(to_update) >= 1
  /\ counts.inserted = Len(to_insert)
  /\ counts.updated = Len(to_update)

\* C13: in a run whose field details lack one of the columns the migration
\* needs, no step changes the durable target store, whatever candidates the
\* source pages hold.
C13_MissingColumnNoWrite ==
  [][cfg.columns # AllColumns => committed' = committed]_vars

\* main() has just classified a source page.
Classified == last.op = "fetch"

\* How often a record occurs in a list.
Occurrences(rec, records) == Cardinality({i \in 1..Len(records) : records[i] = rec})

\* C14: after divide_records every record of the page is in exactly one of
\* to_update and to_insert, as often as the page holds it; it is in to_update
\* exactly when its custom_field_record_id is present and non-empty; and an
\* empty page gives two empty lists.
C14_ClassificationPartitions ==
  /\ ToUpdate(<<>>) = <<>>
  /\ ToInsert(<<>>) = <<>>
  /\ Classified =>
       LET page == FetchPage(txn, src, offset)
       IN /\ Len(page) = batch_len
          /\ \A i \in 1..Len(page) :
               LET rec == page[i]
                   present == rec.custom_field_record_id # None
                                /\ rec.custom_field_record_id # EmptyStr
               IN /\ Occurrences(rec, to_update) + Occurrences(rec, to_insert)
                       = Occurrences(rec, page)
                  /\ present => Occurrences(rec, to_insert) = 0
                  /\ ~present => Occurrences(rec, to_update) = 0
          /\ Len(to_update) + Len(to_insert) = Len(page)

\* C14, witness: a page was split into a non-empty to_update and a non-empty
\* to_insert.
C14_Witness ==
  /\ Classified
  /\ to_update # <<>>
  /\ to_insert # <<>>
  /\ Len(to_update) + Len(to_insert) = batch_len

\* Values of every kind: null, non-strings, empty-like strings in several
\* spellings, and strings the sanitizer keeps.
SampleValues ==
  {None, IntV(0), IntV(5), EmptyStr,
   StrV(<<" ">>), StrV(<<"N", "U", "L", "L">>), StrV(<<" ", "n", "u", "l", "l", " ">>),
   StrV(<<"N", "o", "n", "e">>), StrV(<<"a">>), StrV(<<" ", "a">>),
   StrV(<<" ", " ", "a">>), StrV(<<"a", ",", " ", "b">>), StrV(<<"n", "u", "l", "l", "a">>)}

\* insert_records or update_records has just sanitized its records.
Sanitized ==
  \/ last.op = "insert_begin" /\ pc = "insert_unit"
  \/ last.op = "update_begin"

SanitizedRecords == IF last.op = "insert_begin" THEN to_insert ELSE to_update

\* C15: sanitizing a sanitized value gives the value again, for values of every
\* kind, and sanitize_records leaves the records it has sanitized as they are.
C15_SanitizeIdempotent ==
  /\ \A v \in SampleValues : SanitizeValue(SanitizeValue(v)) = SanitizeValue(v)
  /\ Sanitized => sanitize_records(SanitizedRecords) = SanitizedRecords

\* C15, witness: the sanitizer has replaced the empty-like value of a record
\* ("NULL" in the source) by the empty string.
C15_Witness ==
  /\ Sanitized
  /\ \E i \in 1..Len(SanitizedRecords) :
       /\ SanitizedRecords[i].S = EmptyStr
       /\ src[SanitizedRecords[i].specimen_id].S # EmptyStr
  /\ sanitize_records(SanitizedRecords) = SanitizedRecords

\* The characters of a string that are neither blanks nor commas, in order.
Letters(chars) == SelectSeq(chars, LAMBDA c : c # " " /\ c # ",")

\* The pieces of a comma-separated string that hold a letter.
FilledPieces(chars) == SelectSeq(Split(chars), LAMBDA p : Letters(p) # <<>>)

\* Comma-separated strings: blanks around tokens, empty pieces, a repeated
\* token, a blank inside a token, no comma at all.
SampleLists ==
  {<<"A", ",", " ", "B", " ", ",", ",", "C">>,
   <<"a", ",", "a">>,
   <<",", " ", ",", "a", " ", "b", ",">>,
   <<" ", "a", " ">>,
   <<"b", ",", " ", "a", " ", ",", ",", "c">>}

\* How often a token occurs among the tokens of a value.
TokenCount(tok, value) ==
  Cardinality({j \in 1..Len(SplitValues(value)) : SplitValues(value)[j] = tok})

\* The multi-select rows with the identifier id are the tokens of the value:
\* one row per token, or one row per distinct token under a unique key.
RowsAreTokens(st, unique_key, value, id) ==
  /\ \A tok \in TokenSet(value) :
       CopiesIn(<<tok, id>>, st.multi) = IF unique_key THEN 1 ELSE TokenCount(tok, value)
  /\ \A row \in BagToSet(st.multi) : row[2] = id => row[1] \in TokenSet(value)

\* C16: splitting gives one token per piece that holds a letter, in order,
\* trimmed and never empty ("A, B ,,C" gives A, B, C), and a committed insert
\* unit has written, for each of its records, the tokens of the multi-select
\* value as the rows of the record and nothing else.
C16_InsertSplitsTokens ==
  /\ SplitValues(StrV(<<"A", ",", " ", "B", " ", ",", ",", "C">>)) = <<(<<"A">>), <<"B">>, <<"C">>>>
  /\ \A chars \in SampleLists :
       LET toks == SplitValues(StrV(chars))
           filled == FilledPieces(chars)
       IN /\ Len(toks) = Len(filled)
          /\ \A j \in 1..Len(toks) :
               /\ toks[j] # <<>>
               /\ toks[j] = Strip(filled[j])
               /\ ~IsSpace(toks[j][1])
               /\ ~IsSpace(toks[j][Len(toks[j])])
               /\ \A n \in 1..Len(toks[j]) : toks[j][n] # ","
  /\ (InsertUnitDone /\ last.ok) =>
       \A i \in 1..Len(last.unit) :
         RowsAreTokens(committed, cfg.unique_key, last.unit[i].M, last.first + i)

\* C16, witness: a record whose multi-select value has blanks and empty pieces
\* was inserted and has its three rows.
C16_Witness ==
  /\ InsertUnitDone
  /\ last.ok
  /\ \E i \in 1..Len(last.unit) :
       /\ Len(Split(PyStr(last.unit[i].M))) = 4
       /\ Len(SplitValues(last.unit[i].M)) = 3
       /\ MultiRows(committed, last.first + i) = 3

\* C17: the run's processed count is always the sum of its inserted, updated
\* and failed totals, and when a source batch is finished its records are the
\* sum of the batch's inserted, updated and failed counts, whatever failed.
C17_CountersConserved ==
  /\ totals.processed_count
       = totals.total_inserted + totals.total_updated + totals.total_failed
  /\ pc = "totals" => batch_len = counts.inserted + counts.updated + counts.failed

\* C17, witness: the run has ended with records inserted, updated and failed.
C17_Witness ==
  /\ pc = "done"
  /\ totals.total_inserted >= 1
  /\ totals.total_updated >= 1
  /\ totals.total_failed >= 1
  /\ totals.processed_count
       = totals.total_inserted + totals.total_updated + totals.total_failed

\* C18: no two rows of the committed entry table carry the same identifier,
\* and the identifiers a committed unit wrote are greater than every identifier
\* the entry table held before the unit, and so than every identifier it held
\* when the call seeded its counter, also when earlier units of the call were
\* rolled back.
C18_CommittedIdsUnique ==
  /\ \A i \in 1..Len(committed.entry) :
       \A j \in 1..Len(committed.entry) :
         i # j => committed.entry[i].record_id # committed.entry[j].record_id
  /\ (InsertUnitDone /\ last.ok) =>
       \A i \in 1..Len(last.unit) :
         /\ \A id \in RecordIds(last.before) : last.first + i > id
         /\ \E j \in 1..Len(committed.entry) :
              /\ committed.entry[j].record_id = last.first + i
              /\ committed.entry[j].object_id = last.unit[i].specimen_id

\* C18, witness: a unit was committed in a call of insert_records in which an
\* earlier unit had been rolled back.
C18_Witness ==
  /\ InsertUnitDone
  /\ last.ok
  /\ ins.failure_count >= 1
  /\ \A id \in RecordIds(last.before) : last.first + 1 > id

====
